---- MODULE Spec2Model ----
(***************************************************************************)
(* A model of the micro:bit sensors library: Sensor (src/sensors.ts) and   *)
(* SensorScheduler (src/jacdacSensorMap.ts).                               *)
(*                                                                         *)
(* Strings are TLA+ strings; a value that may be undefined in the source   *)
(* (a reading of a disconnected sensor, config.comparator) is a sequence   *)
(* of length 0 (undefined) or 1 (the value).                               *)
(***************************************************************************)
EXTENDS Integers, Sequences, FiniteSets, TLC

----------------------------------------------------------------------------
(* Bounds of the model *)

\* Largest measurement budget a RecordingConfig is created with.
MaxMeasurements == 2

\* The scheduler's logical clock is followed up to MaxTick pause chunks.
MaxTick == 3

\* Number of buffer operation calls followed, and the largest capacity given
\* to setBufferSize.
MaxBufferCalls == 5
MaxBufferSize == 2

\* Number of start() calls followed in the restart specification.
MaxStarts == 2

\* Number of direct Sensor.log() calls followed in the sensor specification.
MaxCalls == 2

\* Number of direct Sensor.log(time) calls followed in the record
\* specification.
MaxTimedCalls == 1

\* Number of Sensors created from the sensor maps.
MaxCreated == 2

----------------------------------------------------------------------------
(* Program constants *)

\* "To what precision should readings from the sensor be truncated to".
READING_PRECISION == 8

\* The chunk of basic.pause(100) and of i += 100 in SensorScheduler.start.
PauseChunk == 100

\* this.maxBufferSize = 80 in the constructor of Sensor.
DefaultBufferSize == 80

sensorEventSymbols == <<"=", ">", "<", ">=", "<=">>

----------------------------------------------------------------------------
(* Input domains *)

\* The Sensor objects and the RecordingConfig objects of the model.
SensorIds == {1, 2}
CfgIds == {1, 2}
FiberIds == 1..MaxStarts

\* this.config of a Sensor that was never given one.
NoConfig == 1 - 1

Undefined == <<>>
Some(v) == <<v>>
IsDefined(o) == Len(o) > 0
Val(o) == o[1]

\* What sensorFn() returns to the scheduler's log calls (connected sensors):
\* below and above the comparator.
Readings == {5, 15}

\* What sensorFn() returns to a direct caller: also the comparator itself, a
\* reading longer than READING_PRECISION, and undefined (a disconnected
\* Jacdac sensor).
Samples == {Some(5), Some(10), Some(15), Some(123456789), Undefined}

\* control.millis() when log() is called without a time (or with time 0).
Millis == {7}

\* input.runningTime() - lastLogTime when the pause is computed.
OperationTimes == {0, 130}

Periods == {PauseChunk, 2 * PauseChunk}

\* The time argument of a direct log(time) call: none, 0, or a time of the
\* caller's clock.
Times == {Undefined, Some(0), Some(PauseChunk)}

\* What sensorFn() returns to readIntoBufferOnce.
BufferSamples == {Some(5), Some(15), Undefined}

\* opts.min and opts.max of the Sensors of the maps: the accelerometer, the
\* light level, the temperature, the Jacdac humidity sensor.
Accelerometer == <<-2048, 2048>>
Calibrations == {Accelerometer, <<0, 255>>, <<-40, 100>>, <<10, 99>>}

\* opts.min and opts.max as any caller of new Sensor(opts) may give them:
\* also a pair with min == max.
ConstructorOpts == Calibrations \cup {<<5, 5>>}

\* The inequality / comparator pairs a RecordingConfig is created with;
\* "!=" is known to eventShouldTrigger only.
Comparators == {10}
Inequalities == {"=", ">", "<", ">=", "<=", "!="}

TimeCap == MaxTick * PauseChunk

----------------------------------------------------------------------------
(* The micro:bit sensors of getMicrobitSensor used as the model's Sensors *)

SensorName(s) == CASE s = 1 -> "Accel. X"
                   [] s = 2 -> "Light"
                   [] s = 3 -> "Temp."
                   [] OTHER -> "A. Pin 0"

SensorRadioName_Display(s) == SensorName(s)

SensorRadioName(s) == CASE s = 1 -> "AX"
                        [] s = 2 -> "L"
                        [] s = 3 -> "T"
                        [] OTHER -> "AP0"

----------------------------------------------------------------------------
VARIABLES
  \* ---- RecordingConfig objects (the heap) ----
  recordingConfig,      \* [CfgIds -> [measurements, period, inequality, comparator]]
  \* ---- Sensor fields ----
  config,               \* [SensorIds -> CfgIds \cup {NoConfig}]: this.config
  totalMeasurements,    \* [SensorIds -> Int]
  isInEventMode,        \* [SensorIds -> BOOLEAN]
  lastLoggedReading,    \* [SensorIds -> optional number]
  \* ---- collaborators ----
  datalog,              \* rows handed to datalogger.log, in order
  callbackLog,          \* arguments of callbackObj.callback, in order
  led,                  \* what the 5x5 matrix shows
  \* ---- SensorScheduler fields ----
  sensors,              \* the Sensor[] given to the constructor (sorted)
  schedule,             \* Seq of [sensor, waitTime]
  sensorWithMostTimeLeft,
  showOnLEDMatrixWhenDone,
  continueLogging,
  \* ---- the fibers of start(): position and locals ----
  fiber,                \* [FiberIds -> [pc, callbackAfterLog, currentTime,
                        \*               nextLogTime, sleepTime, pauseTime, i]]
  starts,               \* number of start() calls made
  \* ---- the calibration and the buffers of the first Sensor ----
  minimum,
  maximum,
  maxBufferSize,
  numberOfReadings,
  dataBuffer,           \* Seq of readings
  normalisedDataBuffer, \* Seq of <<numerator, denominator>>
  \* ---- history ----
  logCalls,             \* every Sensor.log() call made, in order
  stoppedWhile,         \* where the first fiber was when stop() was called
  appended,             \* every reading pushed to dataBuffer, in order
  bufferCalls,          \* number of calls of the buffer operations made
  bufferCall,           \* the latest of them: [op, arg, ret]
  \* ---- onEvent: its fiber, its callback, eventShouldTrigger ----
  eventFiber,           \* [pc, sensor, reading]: the fiber of onEvent
  eventCbLog,           \* arguments of eventCb, in order
  eventCall,            \* the latest eventShouldTrigger call:
                        \* [sensor, cfg, reading, ret, threw]
  \* ---- Sensors created from the sensor maps ----
  created               \* Seq of [name, radioName], in order of creation

sensorVars == <<config, totalMeasurements, isInEventMode, lastLoggedReading>>
schedVars == <<sensors, schedule, sensorWithMostTimeLeft,
               showOnLEDMatrixWhenDone, continueLogging, fiber, starts>>
bufVars == <<minimum, maximum, maxBufferSize, numberOfReadings, dataBuffer,
             normalisedDataBuffer, appended, bufferCalls, bufferCall>>
eventVars == <<eventFiber, eventCbLog, eventCall>>
mapVars == <<created>>
vars == <<recordingConfig, sensorVars, datalog, callbackLog, led, schedVars,
          logCalls, stoppedWhile, bufVars, eventVars, mapVars>>

----------------------------------------------------------------------------
(* Helpers *)

\* The % of JavaScript: the result has the sign of the dividend.
JsMod(a, b) == IF a >= 0 THEN a % b ELSE 0 - ((0 - a) % b)

\* String.prototype.slice(0, n)
Slice0(str, n) == IF Len(str) <= n THEN str ELSE SubSeq(str, 1, n)

\* Array.prototype.splice(i, 1), i counted from 0.
Splice1(seq, i) == SubSeq(seq, 1, i) \o SubSeq(seq, i + 2, Len(seq))

Last(seq) == seq[Len(seq)]

RECURSIVE SumSeq(_)
SumSeq(seq) == IF seq = <<>> THEN 0 ELSE Head(seq) + SumSeq(Tail(seq))

----------------------------------------------------------------------------
(* Event predicate table *)

LookupHas(inequality) ==
  \E k \in 1..Len(sensorEventSymbols) : sensorEventSymbols[k] = inequality

sensorEventFunctionLookup_Inclusive(inequality, reading, comparator) ==
  /\ IsDefined(reading)
  /\ CASE inequality = "="  -> Val(reading) = comparator
       [] inequality = ">"  -> Val(reading) >= comparator
       [] inequality = "<"  -> Val(reading) <= comparator
       [] inequality = ">=" -> Val(reading) >= comparator
       [] inequality = "<=" -> Val(reading) <= comparator
       [] OTHER -> FALSE

\* sensorEventFunctionLookup[inequality](reading, comparator); a comparison
\* with an undefined reading is false.
sensorEventFunctionLookup(inequality, reading, comparator) ==
  /\ IsDefined(reading)
  /\ CASE inequality = "="  -> Val(reading) = comparator
       [] inequality = ">"  -> Val(reading) > comparator
       [] inequality = "<"  -> Val(reading) < comparator
       [] inequality = ">=" -> Val(reading) >= comparator
       [] inequality = "<=" -> Val(reading) <= comparator
       [] OTHER -> FALSE

----------------------------------------------------------------------------
(* Sensor *)

\* The mutable state one fiber step works on, as a record m:
\*   recordingConfig, lastLoggedReading, datalog, callbackLog, led, schedule,
\*   logCalls.
Machine == [recordingConfig |-> recordingConfig,
            lastLoggedReading |-> lastLoggedReading,
            datalog |-> datalog, callbackLog |-> callbackLog, led |-> led,
            schedule |-> schedule, logCalls |-> logCalls]

\* get measurements(): this.config.measurements
Measurements(m, s) == m.recordingConfig[config[s]].measurements

\* get period(): this.config.period
Period(s) == recordingConfig[config[s]].period

HasMeasurements_Inclusive(m, s) == Measurements(m, s) >= 0

\* hasMeasurements(): this.config.measurements > 0
HasMeasurements(m, s) == Measurements(m, s) > 0

\* number.toString() of a defined reading
NumberToString(reading) == ToString(Val(reading))

\* this.lastLoggedReading.toString().slice(0, READING_PRECISION)
TruncatedReading(reading) ==
  Slice0(IF IsDefined(reading) THEN NumberToString(reading) ELSE "undefined",
         READING_PRECISION)

\* if (!time) time = control.millis()
LogTime(time, millis) ==
  IF ~IsDefined(time) \/ Val(time) = 0 THEN millis ELSE Val(time)

EventDescription(c) == c.inequality \o " " \o ToString(Val(c.comparator))

DecrementMeasurements_Forgotten(rc, c) == rc

\* this.config.measurements -= 1
DecrementMeasurements(rc, c) ==
  [rc EXCEPT ![c].measurements = rc[c].measurements - 1]

\* One call of Sensor.log(time) on sensor s, made by `by` (a fiber, or 0 for a
\* direct caller), with sensorFn() = reading and control.millis() = millis.
\* undefThrows: whether toString() of an undefined reading throws (plain
\* JavaScript) or yields "undefined" (the MakeCode runtime).
\* The result is [m, ret, threw].
SensorLog(m, s, time, reading, millis, undefThrows, by) ==
  LET tm == LogTime(time, millis)
      c == config[s]
      m1 == [m EXCEPT !.lastLoggedReading[s] = reading]
      rd == TruncatedReading(reading)
      call == [sensor |-> s, time |-> time, reading |-> reading, by |-> by,
               event |-> isInEventMode[s], cfg |-> c,
               before |-> IF c = NoConfig THEN Undefined
                          ELSE Some(m.recordingConfig[c].measurements),
               ret |-> "", threw |-> FALSE, rows |-> 0]
      Out(mm, cl) == [m |-> [mm EXCEPT !.logCalls = Append(@, cl)],
                      ret |-> cl.ret, threw |-> cl.threw]
  IN
  IF ~IsDefined(reading) /\ undefThrows
  THEN Out(m1, [call EXCEPT !.threw = TRUE])
  ELSE IF isInEventMode[s]
  THEN LET cf == m.recordingConfig[c] IN
       IF ~LookupHas(cf.inequality)
       THEN Out(m1, [call EXCEPT !.threw = TRUE])
       ELSE IF sensorEventFunctionLookup(cf.inequality, reading,
                                         Val(cf.comparator))
       THEN LET row == [Sensor |-> SensorName(s), Time |-> ToString(tm),
                        Reading |-> rd, Event |-> EventDescription(cf)]
                csv == SensorRadioName(s) \o "," \o ToString(tm) \o "," \o rd
                       \o "," \o EventDescription(cf)
            IN Out([m1 EXCEPT !.datalog = Append(@, row),
                              !.recordingConfig = DecrementMeasurements(@, c)],
                   [call EXCEPT !.ret = csv, !.rows = 1])
       ELSE Out(m1, call)
  ELSE LET row == [Sensor |-> SensorName(s), Time |-> ToString(tm),
                   Reading |-> rd, Event |-> "N/A"]
           csv == SensorRadioName(s) \o "," \o ToString(tm) \o "," \o rd
                  \o "," \o "N/A"
           m2 == [m1 EXCEPT !.datalog = Append(@, row)]
       IN IF c = NoConfig
          THEN Out(m2, [call EXCEPT !.threw = TRUE, !.rows = 1])
          ELSE Out([m2 EXCEPT !.recordingConfig = DecrementMeasurements(@, c)],
                   [call EXCEPT !.ret = csv, !.rows = 1])


----------------------------------------------------------------------------
(* SensorScheduler *)

\* Mutant of SortResults: the array is left in the order it was in.
SortResults_Unsorted(seq, key) == {seq}

\* Array.prototype.sort(compare) with compare = a difference of keys, key[k]
\* being the key of seq[k]: some arrangement of seq that ascends by key. The
\* order of entries with equal keys is the sort routine's (the platform's),
\* not the caller's.
SortResults(seq, key) ==
  LET n == Len(seq)
      Perms == {f \in [1..n -> 1..n] : \A a, b \in 1..n : a # b => f[a] # f[b]}
  IN {[k \in 1..n |-> seq[f[k]]] : f \in
        {g \in Perms : \A a, b \in 1..n : a < b => key[g[a]] <= key[g[b]]}}

\* (a, b) => a.waitTime - b.waitTime
WaitTimes(sched) == [k \in 1..Len(sched) |-> sched[k].waitTime]

\* The constructor's choice of sensorWithMostTimeLeft among given[1..n]:
\* the first sensor that maximises totalMeasurements * period.
RECURSIVE MostTimeLeft(_, _, _, _, _)
MostTimeLeft(given, k, best, total, rc) ==
  IF k > Len(given) THEN best
  ELSE LET TimeOf(s) == total[s] * rc[s].period
       IN IF TimeOf(given[k]) > TimeOf(best)
          THEN MostTimeLeft(given, k + 1, given[k], total, rc)
          ELSE MostTimeLeft(given, k + 1, best, total, rc)

\* loggingComplete(): !(this.schedule.length > 0)
LoggingComplete == ~(Len(schedule) > 0)

\* basic.showNumber(this.sensorWithMostTimeLeft.measurements), when asked for
ShowProgress(m, s) ==
  IF showOnLEDMatrixWhenDone /\ s = sensorWithMostTimeLeft
  THEN [m EXCEPT !.led = ToString(Measurements(m, sensorWithMostTimeLeft))]
  ELSE m

\* Mutant of Forward: a log that returned "" is not passed on.
Forward_SkipsEmpty(m, f, logAsCSV) ==
  IF fiber[f].callbackAfterLog /\ logAsCSV # ""
  THEN [m EXCEPT !.callbackLog = Append(@, logAsCSV)]
  ELSE m

\* if (callbackAfterLog) callbackObj.callback(logAsCSV)
Forward(m, f, logAsCSV) ==
  IF fiber[f].callbackAfterLog
  THEN [m EXCEPT !.callbackLog = Append(@, logAsCSV)]
  ELSE m

\* Mutant of ShouldClear: the entry is cleared once its sensor is down to
\* its last measurement.
ShouldClear_OneEarly(m, s) == ~(Measurements(m, s) > 1)

\* "Clear from schedule": the test guarding this.schedule.splice(i, 1)
ShouldClear(m, s) == ~HasMeasurements(m, s)

\* The index the for loops continue with after the entry at i was handled;
\* the loops do not step back after a splice.
NextIndex(i, spliced) == i + 1

\* "Log all sensors once": the for loop of start() from index i on,
\* rs[s] being sensorFn()'s value for sensor s.
RECURSIVE InitialPass(_, _, _, _)
InitialPass(m, i, f, rs) ==
  IF ~(i < Len(m.schedule)) THEN m
  ELSE LET s == m.schedule[i + 1].sensor
           m1 == ShowProgress(m, s)
           out == SensorLog(m1, s, Some(0), Some(rs[s]),
                            CHOOSE ms \in Millis : TRUE, FALSE, f)
           m2 == Forward(out.m, f, out.ret)
           clear == ShouldClear(m2, s)
           m3 == IF clear
                 THEN [m2 EXCEPT !.schedule = Splice1(@, i)]
                 ELSE m2
       IN InitialPass(m3, NextIndex(i, clear), f, rs)

\* sensorFn()'s value for each sensor in one pass over the schedule (a pass
\* logs a sensor at most once). The reading of a sensor that is not in event
\* mode steers nothing in the scheduler: one value stands for it.
PassReadings ==
  {rs \in [DOMAIN config -> Readings] :
     \A s \in DOMAIN config : ~isInEventMode[s] => rs[s] = 5}

IsDue_Late(currentTime, waitTime) == currentTime > waitTime

\* The test of the tick loop that selects the entries to log
IsDue(currentTime, waitTime) == JsMod(currentTime, waitTime) = 0

\* Mutant of Reschedule: the entry advances by one pause chunk, whatever the
\* sensor's period.
Reschedule_ByChunk(m, i, s, nextLogTime) ==
  IF HasMeasurements(m, s)
  THEN [m EXCEPT !.schedule[i + 1].waitTime = nextLogTime + PauseChunk]
  ELSE m

\* this.schedule[i].waitTime = nextLogTime + this.schedule[i].sensor.period
Reschedule(m, i, s, nextLogTime) ==
  IF HasMeasurements(m, s)
  THEN [m EXCEPT !.schedule[i + 1].waitTime = nextLogTime + Period(s)]
  ELSE m

\* The for loop of one tick of the while loop, from index i on.
RECURSIVE TickPass(_, _, _, _, _, _)
TickPass(m, i, f, currentTime, nextLogTime, rs) ==
  IF ~(i < Len(m.schedule)) THEN m
  ELSE LET s == m.schedule[i + 1].sensor IN
       IF ShouldClear(m, s)
       THEN TickPass([m EXCEPT !.schedule = Splice1(@, i)],
                     NextIndex(i, TRUE), f, currentTime, nextLogTime, rs)
       ELSE IF IsDue(currentTime, m.schedule[i + 1].waitTime)
       THEN LET m1 == ShowProgress(m, s)
                out == SensorLog(m1, s, Some(currentTime), Some(rs[s]),
                                 CHOOSE ms \in Millis : TRUE, FALSE, f)
                m2 == Forward(out.m, f, out.ret)
                m3 == Reschedule(m2, i, s, nextLogTime)
            IN TickPass(m3, NextIndex(i, FALSE), f, currentTime, nextLogTime,
                        rs)
       ELSE TickPass(m, NextIndex(i, FALSE), f, currentTime, nextLogTime, rs)

IdleFiber == [pc |-> "idle", callbackAfterLog |-> FALSE, currentTime |-> 0,
              nextLogTime |-> 0, sleepTime |-> 0, pauseTime |-> 0, i |-> 0]

\* A fiber whose function has ended: its locals are gone.
Ended(fb, pc) == [IdleFiber EXCEPT !.pc = pc,
                                   !.callbackAfterLog = fb.callbackAfterLog]

\* The state a fiber step leaves behind
Commit(m) ==
  /\ recordingConfig' = m.recordingConfig
  /\ lastLoggedReading' = m.lastLoggedReading
  /\ datalog' = m.datalog
  /\ callbackLog' = m.callbackLog
  /\ led' = m.led
  /\ schedule' = m.schedule
  /\ logCalls' = m.logCalls

\* "Done:" the end of start()'s fiber: the face on the matrix and the
\* callback("") that ends the stream.
Done(f, m, currentTime) ==
  /\ Commit([(IF fiber[f].callbackAfterLog
              THEN [m EXCEPT !.callbackLog = Append(@, "")]
              ELSE m)
             EXCEPT !.led = IF showOnLEDMatrixWhenDone THEN "face" ELSE @])
  /\ fiber' = [fiber EXCEPT ![f] = Ended(fiber[f], "done")]

\* The exit taken when the chunk loop sees the request to stop
ChunkLoopExit(f, m, fb) ==
  /\ Commit(m)
  /\ fiber' = [fiber EXCEPT ![f] = Ended(fb, "returned")]

\* Mutant of StopRequested: the flag is never seen.
StopRequested_Never == FALSE

\* if (!this.continueLogging)
StopRequested == ~continueLogging

\* From the head of the while loop to the fiber's next basic.pause (or its
\* end), with elapsed = input.runningTime() - lastLogTime.
EnterWait(f, m, currentTime, elapsed) ==
  IF ~(Len(m.schedule) > 0) THEN Done(f, m, currentTime)
  ELSE LET nextLogTime == m.schedule[1].waitTime
           sleepTime == nextLogTime - currentTime
           pauseTime == sleepTime - elapsed
           fb == [fiber[f] EXCEPT !.currentTime = currentTime,
                                  !.nextLogTime = nextLogTime,
                                  !.sleepTime = sleepTime,
                                  !.pauseTime = pauseTime,
                                  !.i = 0]
       IN /\ nextLogTime <= TimeCap
          /\ IF 0 < pauseTime
             THEN IF StopRequested
                  THEN ChunkLoopExit(f, m, fb)
                  ELSE /\ Commit(m)
                       /\ fiber' = [fiber EXCEPT ![f] = [fb EXCEPT !.pc = "chunk"]]
             ELSE /\ Commit(m)
                  /\ fiber' = [fiber EXCEPT ![f] = [fb EXCEPT !.pc = "remainder"]]

----------------------------------------------------------------------------
(* Actions of the scheduler *)

\* start(callbackObj?): control.inBackground queues the fiber and returns.
StartCall(limit) ==
  /\ starts < limit
  /\ \E cb \in BOOLEAN :
       fiber' = [fiber EXCEPT ![starts + 1].pc = "queued",
                              ![starts + 1].callbackAfterLog = cb]
  /\ starts' = starts + 1
  /\ UNCHANGED bufVars
  /\ UNCHANGED <<eventVars, mapVars>>
  /\ UNCHANGED <<recordingConfig, sensorVars, datalog, callbackLog, led,
                 sensors, schedule, sensorWithMostTimeLeft,
                 showOnLEDMatrixWhenDone, continueLogging, logCalls,
                 stoppedWhile>>

Start == StartCall(1)

Ended_pcs == {"done", "returned"}

\* The fiber is inside one of the loop's basic.pause calls
Paused(fb) == fb.pc \in {"chunk", "remainder"}

\* start() called again once every earlier fiber has ended.
StartAgain ==
  /\ starts >= 1
  /\ \A f \in 1..starts : fiber[f].pc \in Ended_pcs
  /\ StartCall(MaxStarts)

\* The fiber begins: the initial pass, then on to its first pause.
RunFiber(f) ==
  /\ fiber[f].pc = "queued"
  /\ \E rs \in PassReadings, elapsed \in OperationTimes :
       \E m \in {InitialPass(Machine, 0, f, rs)} :
         EnterWait(f, m, 0, elapsed)
  /\ UNCHANGED bufVars
  /\ UNCHANGED <<eventVars, mapVars>>
  /\ UNCHANGED <<config, totalMeasurements, isInEventMode, sensors,
                 sensorWithMostTimeLeft, showOnLEDMatrixWhenDone,
                 continueLogging, starts, stoppedWhile>>

\* basic.pause(100) of the chunk loop returns.
ChunkWake(f) ==
  /\ fiber[f].pc = "chunk"
  /\ LET fb == [fiber[f] EXCEPT !.i = @ + PauseChunk] IN
       IF fb.i < fb.pauseTime
       THEN IF StopRequested
            THEN ChunkLoopExit(f, Machine, fb)
            ELSE /\ fiber' = [fiber EXCEPT ![f] = fb]
                 /\ Commit(Machine)
       ELSE /\ fiber' = [fiber EXCEPT ![f] = [fb EXCEPT !.pc = "remainder"]]
            /\ Commit(Machine)
  /\ UNCHANGED bufVars
  /\ UNCHANGED <<eventVars, mapVars>>
  /\ UNCHANGED <<config, totalMeasurements, isInEventMode, sensors,
                 sensorWithMostTimeLeft, showOnLEDMatrixWhenDone,
                 continueLogging, starts, stoppedWhile>>

\* basic.pause(pauseTime % 100) returns: the stop check, then one tick, the
\* sort, and on to the next pause.
RemainderWake(f) ==
  /\ fiber[f].pc = "remainder"
  /\ IF StopRequested
     THEN Done(f, Machine, fiber[f].currentTime)
     ELSE LET currentTime == fiber[f].currentTime + fiber[f].sleepTime IN
          \E rs \in PassReadings, elapsed \in OperationTimes :
            \E m \in {TickPass(Machine, 0, f, currentTime,
                              fiber[f].nextLogTime, rs)} :
              \E sorted \in SortResults(m.schedule, WaitTimes(m.schedule)) :
                \E ms \in {[m EXCEPT !.schedule = sorted]} :
                  EnterWait(f, ms, currentTime, elapsed)
  /\ UNCHANGED bufVars
  /\ UNCHANGED <<eventVars, mapVars>>
  /\ UNCHANGED <<config, totalMeasurements, isInEventMode, sensors,
                 sensorWithMostTimeLeft, showOnLEDMatrixWhenDone,
                 continueLogging, starts, stoppedWhile>>

\* stop(): this.continueLogging = false
Stop ==
  /\ continueLogging
  /\ continueLogging' = FALSE
  /\ stoppedWhile' = fiber[1].pc
  /\ UNCHANGED bufVars
  /\ UNCHANGED <<eventVars, mapVars>>
  /\ UNCHANGED <<recordingConfig, sensorVars, datalog, callbackLog, led,
                 sensors, schedule, sensorWithMostTimeLeft,
                 showOnLEDMatrixWhenDone, fiber, starts, logCalls>>

----------------------------------------------------------------------------
(* The buffers of a Sensor *)

\* The constructor: calibration from opts, empty buffers of capacity 80.
NewBuffers(opts) ==
  /\ minimum = opts[1]
  /\ maximum = opts[2]
  /\ maxBufferSize = DefaultBufferSize
  /\ numberOfReadings = 0
  /\ dataBuffer = <<>>
  /\ normalisedDataBuffer = <<>>
  /\ appended = <<>>
  /\ bufferCalls = 0
  /\ bufferCall = [op |-> "new", arg |-> Undefined, ret |-> Undefined]

\* this.range = this.maximum - this.minimum
range == maximum - minimum

\* A quotient a / b of the source, kept as the pair <<a, b>>.
Quotient(a, b) == <<a, b>>

Abs(x) == IF x < 0 THEN 0 - x ELSE x

Shift_Pop(seq) == IF seq = <<>> THEN seq ELSE SubSeq(seq, 1, Len(seq) - 1)

\* Array.prototype.shift(): nothing happens to an empty array.
Shift(seq) == IF seq = <<>> THEN seq ELSE Tail(seq)

SpliceFront_FromEnd(seq, n) ==
  IF n >= Len(seq) THEN <<>> ELSE SubSeq(seq, 1, Len(seq) - n)

\* Array.prototype.splice(0, n), n >= 0
SpliceFront(seq, n) ==
  IF n >= Len(seq) THEN <<>> ELSE SubSeq(seq, n + 1, Len(seq))

\* One more call of a buffer operation
BufferCalled(op, arg, ret) ==
  /\ bufferCalls < MaxBufferCalls
  /\ bufferCalls' = bufferCalls + 1
  /\ bufferCall' = [op |-> op, arg |-> arg, ret |-> ret]

\* The frame of the buffer operations
BufferFrame ==
  UNCHANGED <<recordingConfig, sensorVars, datalog, callbackLog, led,
              schedVars, logCalls, stoppedWhile, minimum, maximum,
              eventVars, mapVars>>

ShouldShift_AtCapacity(reading) == Len(dataBuffer) >= maxBufferSize

\* this.dataBuffer.length >= this.maxBufferSize || reading === undefined
ShouldShift(reading) ==
  Len(dataBuffer) >= maxBufferSize \/ ~IsDefined(reading)

ReadingsAfter_CountsAbsent(reading) == numberOfReadings + 1

\* if (reading === undefined) return ...; this.numberOfReadings += 1
ReadingsAfter(reading) ==
  IF IsDefined(reading) THEN numberOfReadings + 1 ELSE numberOfReadings

\* readIntoBufferOnce()
ReadIntoBufferOnce ==
  \E reading \in BufferSamples :
    LET shifted == ShouldShift(reading)
        data == IF shifted THEN Shift(dataBuffer) ELSE dataBuffer
        normalised == IF shifted THEN Shift(normalisedDataBuffer)
                      ELSE normalisedDataBuffer
    IN
    IF ~IsDefined(reading)
    THEN /\ dataBuffer' = data
         /\ normalisedDataBuffer' = normalised
         /\ BufferCalled("readIntoBufferOnce", reading, Some(Len(data)))
         /\ numberOfReadings' = ReadingsAfter(reading)
         /\ UNCHANGED <<maxBufferSize, appended>>
         /\ BufferFrame
    ELSE /\ numberOfReadings' = ReadingsAfter(reading)
         /\ dataBuffer' = Append(data, Val(reading))
         /\ normalisedDataBuffer' =
              Append(normalised, Quotient(Val(reading) - minimum, range))
         /\ appended' = Append(appended, Val(reading))
         /\ BufferCalled("readIntoBufferOnce", reading, Some(Len(data) + 1))
         /\ UNCHANGED maxBufferSize
         /\ BufferFrame

\* setBufferSize(newBufferSize)
SetBufferSize(newBufferSize) ==
  LET difference == Len(dataBuffer) - newBufferSize IN
  /\ IF Len(dataBuffer) > newBufferSize
     THEN /\ dataBuffer' = SpliceFront(dataBuffer, difference)
          /\ normalisedDataBuffer' =
               SpliceFront(normalisedDataBuffer, difference)
     ELSE UNCHANGED <<dataBuffer, normalisedDataBuffer>>
  /\ maxBufferSize' = newBufferSize
  /\ BufferCalled("setBufferSize", Some(newBufferSize), Undefined)
  /\ UNCHANGED <<numberOfReadings, appended>>
  /\ BufferFrame

NormaliseDataBuffer_NoReset ==
  /\ normalisedDataBuffer' =
       normalisedDataBuffer \o
         [i \in 1..Len(dataBuffer) |->
            Quotient(dataBuffer[i] - minimum, Abs(minimum) + maximum)]
  /\ BufferCalled("normaliseDataBuffer", Undefined, Undefined)
  /\ UNCHANGED <<dataBuffer, maxBufferSize, numberOfReadings, appended>>
  /\ BufferFrame

\* normaliseDataBuffer()
NormaliseDataBuffer ==
  LET min == minimum
      rng == Abs(min) + maximum
  IN
  /\ normalisedDataBuffer' =
       [i \in 1..Len(dataBuffer) |-> Quotient(dataBuffer[i] - min, rng)]
  /\ BufferCalled("normaliseDataBuffer", Undefined, Undefined)
  /\ UNCHANGED <<dataBuffer, maxBufferSize, numberOfReadings, appended>>
  /\ BufferFrame

----------------------------------------------------------------------------
(* Sensor.onEvent and the Sensors of the maps: nothing yet *)

\* No onEvent call was made
NoEventFiber ==
  /\ eventFiber = [pc |-> "idle", sensor |-> 0, reading |-> Undefined]
  /\ eventCbLog = <<>>
  /\ eventCall = [sensor |-> 0, cfg |-> NoConfig, reading |-> Undefined,
                  ret |-> FALSE, threw |-> ""]

\* No Sensor was created from the sensor maps
NoMapSensors ==
  /\ created = <<>>

----------------------------------------------------------------------------
(* Initial states *)

PeriodicConfigs ==
  [measurements : 0..MaxMeasurements, period : Periods,
   inequality : {"undefined"}, comparator : {Undefined}]

EventConfigs ==
  [measurements : 0..MaxMeasurements, period : Periods,
   inequality : {">"}, comparator : {Some(c) : c \in Comparators}]

\* setConfig(config): what it stores in the sensor
EventModeOf(c) == IsDefined(c.comparator) /\ c.inequality # "undefined"

\* n sensors, each with a RecordingConfig of its own set by setConfig, given
\* in the order 1..n to new SensorScheduler(sensors, showOnBasicScreen).
InitScheduler ==
  \E n \in 1..Cardinality(SensorIds) :
  \E rc \in [CfgIds -> PeriodicConfigs \cup EventConfigs] :
    LET given == [k \in 1..n |-> k]
        total == [s \in SensorIds |-> IF s <= n THEN rc[s].measurements ELSE 0]
        periods == [k \in 1..n |-> rc[given[k]].period]
    IN
    /\ \A c \in CfgIds : c > n => rc[c] = [measurements |-> 0,
                                           period |-> PauseChunk,
                                           inequality |-> "undefined",
                                           comparator |-> Undefined]
    /\ recordingConfig = rc
    /\ config = [s \in SensorIds |-> IF s <= n THEN s ELSE NoConfig]
    /\ totalMeasurements = total
    /\ isInEventMode = [s \in SensorIds |-> s <= n /\ EventModeOf(rc[s])]
    /\ lastLoggedReading = [s \in SensorIds |-> Some(0)]
    /\ datalog = <<>>
    /\ callbackLog = <<>>
    /\ led = ""
    /\ \E sorted \in SortResults(given, periods) :
         /\ sensors = sorted
         /\ schedule = [k \in 1..n |-> [sensor |-> sorted[k],
                                        waitTime |-> rc[sorted[k]].period]]
    /\ sensorWithMostTimeLeft = MostTimeLeft(given, 1, given[1], total, rc)
    /\ showOnLEDMatrixWhenDone \in BOOLEAN
    /\ continueLogging = TRUE
    /\ fiber = [f \in FiberIds |-> IdleFiber]
    /\ starts = 0
    /\ logCalls = <<>>
    /\ stoppedWhile = ""
    /\ NewBuffers(Accelerometer)
    /\ NoEventFiber
    /\ NoMapSensors

Init == InitScheduler

Next ==
  \/ Start
  \/ \E f \in FiberIds : RunFiber(f)
  \/ \E f \in FiberIds : ChunkWake(f)
  \/ \E f \in FiberIds : RemainderWake(f)
  \/ Stop

Spec == Init /\ [][Next]_vars

\* The scheduler when stop() is never called; a queued fiber is run and a
\* pause that has elapsed returns.
FiberStep ==
  \/ \E f \in FiberIds : RunFiber(f)
  \/ \E f \in FiberIds : ChunkWake(f)
  \/ \E f \in FiberIds : RemainderWake(f)

NextLive == Start \/ FiberStep

\* A scheduler given periodic sensors only, each with a budget of at least
\* one, whose run ends within the logical time followed: a sensor's last log
\* is no later than budget * period.
InitLive ==
  /\ InitScheduler
  /\ \A k \in 1..Len(sensors) :
       /\ ~isInEventMode[sensors[k]]
       /\ totalMeasurements[sensors[k]] >= 1
       /\ totalMeasurements[sensors[k]] * Period(sensors[k]) <= TimeCap

SpecLive == InitLive /\ [][NextLive]_vars /\ WF_vars(FiberStep)

\* The same scheduler with start() called again after its loop has ended.
NextRestart == Next \/ StartAgain

SpecRestart == Init /\ [][NextRestart]_vars

\* start() called again while the fiber of an earlier call is in one of its
\* pauses: start() has no test of a running loop.
StartDuring ==
  /\ starts >= 1
  /\ \E f \in 1..starts : Paused(fiber[f])
  /\ StartCall(MaxStarts)

\* The same scheduler with start() called again while its loop is running.
NextOverlap == Next \/ StartDuring

SpecOverlap == InitLive /\ [][NextOverlap]_vars

\* Three sensors that are not in event mode, each with a RecordingConfig of
\* its own and the period of one pause chunk, given in the order 1, 2, 3 to
\* new SensorScheduler(sensors, false).
ThreeSensors == 1..3

InitThree ==
  \E budget \in [ThreeSensors -> 0..MaxMeasurements] :
    LET given == [k \in ThreeSensors |-> k]
        rc == [c \in ThreeSensors |-> [measurements |-> budget[c],
                                       period |-> PauseChunk,
                                       inequality |-> "undefined",
                                       comparator |-> Undefined]]
        periods == [k \in ThreeSensors |-> rc[given[k]].period]
    IN
    /\ recordingConfig = rc
    /\ config = [s \in ThreeSensors |-> s]
    /\ totalMeasurements = budget
    /\ isInEventMode = [s \in ThreeSensors |-> EventModeOf(rc[s])]
    /\ lastLoggedReading = [s \in ThreeSensors |-> Some(0)]
    /\ datalog = <<>>
    /\ callbackLog = <<>>
    /\ led = ""
    /\ \E sorted \in SortResults(given, periods) :
         /\ sensors = sorted
         /\ schedule = [k \in ThreeSensors |-> [sensor |-> sorted[k],
                                                waitTime |-> rc[sorted[k]].period]]
    /\ sensorWithMostTimeLeft = MostTimeLeft(given, 1, given[1], budget, rc)
    /\ showOnLEDMatrixWhenDone = FALSE
    /\ continueLogging = TRUE
    /\ fiber = [f \in FiberIds |-> IdleFiber]
    /\ starts = 0
    /\ logCalls = <<>>
    /\ stoppedWhile = ""
    /\ NewBuffers(Accelerometer)
    /\ NoEventFiber
    /\ NoMapSensors

SpecThree == InitThree /\ [][Next]_vars

----------------------------------------------------------------------------
(* The Sensor used directly: setConfig and log called by the application *)

\* new Sensor(opts) for every sensor, no scheduler
NewSensors ==
  /\ config = [s \in SensorIds |-> NoConfig]
  /\ totalMeasurements = [s \in SensorIds |-> 0]
  /\ isInEventMode = [s \in SensorIds |-> FALSE]
  /\ lastLoggedReading = [s \in SensorIds |-> Some(0)]
  /\ datalog = <<>>
  /\ callbackLog = <<>>
  /\ led = ""
  /\ sensors = <<>>
  /\ schedule = <<>>
  /\ sensorWithMostTimeLeft = 1
  /\ showOnLEDMatrixWhenDone = FALSE
  /\ continueLogging = TRUE
  /\ fiber = [f \in FiberIds |-> IdleFiber]
  /\ starts = 0
  /\ logCalls = <<>>
  /\ stoppedWhile = ""

\* new Sensor(opts) for every sensor, no scheduler; RecordingConfig 1 is an
\* event configuration, RecordingConfig 2 a periodic one.
InitSensor ==
  /\ \E ev \in [measurements : 0..MaxMeasurements, period : {PauseChunk},
                 inequality : Inequalities,
                 comparator : {Some(c) : c \in Comparators}],
        pe \in {c \in PeriodicConfigs : c.period = PauseChunk} :
       recordingConfig = [c \in CfgIds |-> IF c = 1 THEN ev ELSE pe]
  /\ NewSensors
  /\ NewBuffers(Accelerometer)
  /\ NoEventFiber
  /\ NoMapSensors

\* sensor.setConfig(config), called by the application once per Sensor of a
\* recording session
SetConfig(s, c) ==
  /\ config[s] = NoConfig
  /\ config' = [config EXCEPT ![s] = c]
  /\ totalMeasurements' =
       [totalMeasurements EXCEPT ![s] = recordingConfig[c].measurements]
  /\ isInEventMode' = [isInEventMode EXCEPT ![s] = EventModeOf(recordingConfig[c])]
  /\ UNCHANGED bufVars
  /\ UNCHANGED <<eventVars, mapVars>>
  /\ UNCHANGED <<recordingConfig, lastLoggedReading, datalog, callbackLog, led,
                 schedVars, logCalls, stoppedWhile>>

\* sensor.log(time) called by the application, time drawn from times and
\* sensorFn() from samples
LogCall(s, times, samples, limit) ==
  /\ Len(logCalls) < limit
  /\ \E time \in times, reading \in samples, millis \in Millis,
        undefThrows \in BOOLEAN :
       /\ IsDefined(reading) => ~undefThrows
       /\ Commit(SensorLog(Machine, s, time, reading, millis, undefThrows,
                           0).m)
  /\ UNCHANGED bufVars
  /\ UNCHANGED <<eventVars, mapVars>>
  /\ UNCHANGED <<config, totalMeasurements, isInEventMode, sensors, sensorWithMostTimeLeft,
                 showOnLEDMatrixWhenDone, continueLogging, fiber, starts,
                 stoppedWhile>>

\* sensor.log()
Log(s) == LogCall(s, {Undefined}, Samples, MaxCalls)

NextSensor ==
  \/ \E s \in SensorIds, c \in CfgIds : SetConfig(s, c)
  \/ \E s \in SensorIds : Log(s)

SpecSensor == InitSensor /\ [][NextSensor]_vars

\* sensor.log(time)
LogAt(s) == LogCall(s, Times, Samples, MaxTimedCalls)

\* The same Sensors with log called with and without a time.
NextRecord ==
  \/ \E s \in SensorIds, c \in CfgIds : SetConfig(s, c)
  \/ \E s \in SensorIds : LogAt(s)

SpecRecord == InitSensor /\ [][NextRecord]_vars

----------------------------------------------------------------------------
(* Sensor.onEvent: polling for the configured event *)

\* A RecordingConfig as recordingConfig(measurements, period, inequality?,
\* comparator?) creates it from any string and any optional number: the
\* symbols of Inequalities, a symbol that is none of them, or no symbol.
EventTestConfigs ==
  [measurements : {MaxMeasurements}, period : {PauseChunk},
   inequality : Inequalities \cup {"=>", "undefined"},
   comparator : {Some(c) : c \in Comparators} \cup {Undefined}]

\* The strings eventShouldTrigger throws
NoConfigError == "eventShouldTrigger: no config"
IncompleteConfigError == "eventShouldTrigger: incomplete config"
UnrecognisedSymbolError == "eventShouldTrigger: default: unrecognised sensorEventSymbol"

\* The switch of eventShouldTrigger over the symbols it knows. A comparison
\* of undefined with a number is false, undefined != number is true.
EventCases == {"=", "!=", ">", "<", ">=", "<="}

EventSwitch(inequality, reading, comparator) ==
  IF ~IsDefined(reading) THEN inequality = "!="
  ELSE CASE inequality = "="  -> Val(reading) = comparator
         [] inequality = "!=" -> Val(reading) # comparator
         [] inequality = ">"  -> Val(reading) > comparator
         [] inequality = "<"  -> Val(reading) < comparator
         [] inequality = ">=" -> Val(reading) >= comparator
         [] inequality = "<=" -> Val(reading) <= comparator

\* eventShouldTrigger(reading) on sensor s: [ret, threw], threw = "" when it
\* returns.
EventShouldTrigger(s, reading) ==
  IF config[s] = NoConfig
  THEN [ret |-> FALSE, threw |-> NoConfigError]
  ELSE LET cf == recordingConfig[config[s]] IN
       IF cf.inequality = "undefined" \/ ~IsDefined(cf.comparator)
       THEN [ret |-> FALSE, threw |-> IncompleteConfigError]
       ELSE IF cf.inequality \in EventCases
       THEN [ret |-> EventSwitch(cf.inequality, reading, Val(cf.comparator)),
             threw |-> ""]
       ELSE [ret |-> FALSE, threw |-> UnrecognisedSymbolError]

\* this.unitSymbol
UnitSymbol(s) == CASE s = 1 -> "mg"
                   [] OTHER -> "V"

\* A number as string concatenation writes it
NumberText(reading) ==
  IF IsDefined(reading) THEN ToString(Val(reading)) ELSE "undefined"

\* formatReading(reading) on sensor s, `sampled` being what this.reading
\* yields in its return statement.
FormatReading(s, reading, sampled) ==
  NumberText(sampled) \o " " \o UnitSymbol(s)

\* The frame of the onEvent operations
EventFrame ==
  UNCHANGED <<lastLoggedReading, datalog, callbackLog, led, schedVars,
              logCalls, stoppedWhile, bufVars, mapVars>>

\* this.eventShouldTrigger(reading) called on sensor s with a sample
EventShouldTriggerCall(s) ==
  /\ \E reading \in Samples :
       LET out == EventShouldTrigger(s, reading) IN
       eventCall' = [sensor |-> s, cfg |-> config[s], reading |-> reading,
                     ret |-> out.ret, threw |-> out.threw]
  /\ EventFrame
  /\ UNCHANGED <<recordingConfig, config, totalMeasurements, isInEventMode,
                 eventFiber, eventCbLog>>

\* sensor.onEvent(eventCb, config?): c = NoConfig stands for no config given.
OnEvent(s, c) ==
  /\ eventFiber.pc = "idle"
  /\ IF c # NoConfig
     THEN /\ config' = [config EXCEPT ![s] = c]
          /\ totalMeasurements' =
               [totalMeasurements EXCEPT ![s] = recordingConfig[c].measurements]
          /\ isInEventMode' =
               [isInEventMode EXCEPT ![s] = EventModeOf(recordingConfig[c])]
     ELSE UNCHANGED <<config, totalMeasurements, isInEventMode>>
  /\ eventFiber' = [pc |-> IF config'[s] = NoConfig THEN "refused"
                           ELSE "queued",
                    sensor |-> s, reading |-> Undefined]
  /\ EventFrame
  /\ UNCHANGED <<recordingConfig, eventCbLog, eventCall>>

\* One round of the while (true) loop of onEvent's fiber, up to its
\* basic.pause(EVENT_POLLING_RATE_MS) or, past the break, to its end.
Poll ==
  /\ eventFiber.pc \in {"queued", "polling"}
  /\ \E reading \in Samples, sampled \in Samples :
       LET s == eventFiber.sensor
           out == EventShouldTrigger(s, reading)
       IN
       /\ eventCall' = [sensor |-> s, cfg |-> config[s], reading |-> reading,
                        ret |-> out.ret, threw |-> out.threw]
       /\ IF out.threw # ""
          THEN /\ eventFiber' = [eventFiber EXCEPT !.pc = "threw",
                                                   !.reading = reading]
               /\ UNCHANGED eventCbLog
          ELSE IF out.ret
          THEN /\ eventFiber' = [eventFiber EXCEPT !.pc = "done",
                                                   !.reading = reading]
               /\ eventCbLog' =
                    Append(eventCbLog, FormatReading(s, reading, sampled))
          ELSE /\ sampled = reading   \* formatReading is not reached
               /\ eventFiber' = [eventFiber EXCEPT !.pc = "polling",
                                                   !.reading = reading]
               /\ UNCHANGED eventCbLog
  /\ EventFrame
  /\ UNCHANGED <<recordingConfig, config, totalMeasurements, isInEventMode>>

\* new Sensor(opts) for every sensor; RecordingConfig 1 is any config a
\* caller can create, RecordingConfig 2 a periodic one.
InitEvent ==
  /\ \E ev \in EventTestConfigs,
        pe \in {c \in PeriodicConfigs :
                  c.period = PauseChunk /\ c.measurements = MaxMeasurements} :
       recordingConfig = [c \in CfgIds |-> IF c = 1 THEN ev ELSE pe]
  /\ NewSensors
  /\ NewBuffers(Accelerometer)
  /\ NoEventFiber
  /\ NoMapSensors

NextEvent ==
  \/ \E s \in SensorIds, c \in CfgIds : SetConfig(s, c)
  \/ \E s \in SensorIds : EventShouldTriggerCall(s)
  \/ \E s \in SensorIds, c \in CfgIds \cup {NoConfig} : OnEvent(s, c)
  \/ Poll

SpecEvent == InitEvent /\ [][NextEvent]_vars

----------------------------------------------------------------------------
(* The Sensor as the live data viewer uses it: the buffers, next to log *)

\* new Sensor(opts) with a calibration of the maps; an event RecordingConfig
\* and a periodic one to give it.
InitBuffer ==
  /\ recordingConfig =
       [c \in CfgIds |->
          IF c = 1 THEN [measurements |-> MaxMeasurements,
                         period |-> PauseChunk, inequality |-> ">",
                         comparator |-> Some(CHOOSE x \in Comparators : TRUE)]
          ELSE [measurements |-> MaxMeasurements, period |-> PauseChunk,
                inequality |-> "undefined", comparator |-> Undefined]]
  /\ NewSensors
  /\ \E opts \in ConstructorOpts : NewBuffers(opts)
  /\ NoEventFiber
  /\ NoMapSensors

\* sensor.log() on the buffered Sensor
LogBuffered == LogCall(1, {Undefined}, {Some(r) : r \in Readings}, 1)

NextBuffer ==
  \/ ReadIntoBufferOnce
  \/ \E newBufferSize \in 0..MaxBufferSize : SetBufferSize(newBufferSize)
  \/ NormaliseDataBuffer
  \/ \E c \in CfgIds : SetConfig(1, c)
  \/ LogBuffered

SpecBuffer == InitBuffer /\ [][NextBuffer]_vars

\* Mutant of ReadingGet: the value read is also pushed to dataBuffer.
ReadingGet_Buffered ==
  \E reading \in BufferSamples :
    /\ bufferCall' = [op |-> "reading", arg |-> Undefined, ret |-> reading]
    /\ dataBuffer' = IF IsDefined(reading)
                     THEN Append(dataBuffer, Val(reading)) ELSE dataBuffer
    /\ UNCHANGED <<bufferCalls, normalisedDataBuffer, maxBufferSize,
                   numberOfReadings, appended>>
    /\ BufferFrame

\* get reading(): this.sensorFn()
ReadingGet ==
  \E reading \in BufferSamples :
    /\ bufferCall' = [op |-> "reading", arg |-> Undefined, ret |-> reading]
    /\ UNCHANGED <<bufferCalls, dataBuffer, normalisedDataBuffer,
                   maxBufferSize, numberOfReadings, appended>>
    /\ BufferFrame

\* get normalisedReading(): (this.reading - this.minimum) / this.range; no
\* number results when the reading is undefined.
NormalisedReadingGet ==
  \E reading \in BufferSamples :
    /\ bufferCall' =
         [op |-> "normalisedReading", arg |-> Undefined,
          ret |-> IF IsDefined(reading)
                  THEN Quotient(Val(reading) - minimum, range)
                  ELSE Undefined]
    /\ UNCHANGED <<bufferCalls, dataBuffer, normalisedDataBuffer,
                   maxBufferSize, numberOfReadings, appended>>
    /\ BufferFrame

\* The buffered Sensor with its getters read as well.
NextFrame ==
  \/ NextBuffer
  \/ ReadingGet
  \/ NormalisedReadingGet

SpecFrame == InitBuffer /\ [][NextFrame]_vars

----------------------------------------------------------------------------
(* The sensor maps: the Sensors that getMicrobitSensor and getJacdacSensor
   create *)

\* name and rName of the opts getMicrobitSensor gives to new Sensor, in the
\* order of its switch
MicrobitSensorOpts ==
  <<[name |-> "Accel. X", rName |-> "AX"],
     [name |-> "Accel. Y", rName |-> "AY"],
     [name |-> "Accel. Z", rName |-> "AZ"],
     [name |-> "Pitch", rName |-> "P"],
     [name |-> "Roll", rName |-> "R"],
     [name |-> "A. Pin 0", rName |-> "AP0"],
     [name |-> "A. Pin 1", rName |-> "AP1"],
     [name |-> "A. Pin 2", rName |-> "AP2"],
     [name |-> "Light", rName |-> "L"],
     [name |-> "Temp.", rName |-> "T"],
     [name |-> "Magnet", rName |-> "M"],
     [name |-> "Logo Press", rName |-> "LP"],
     [name |-> "Microphone", rName |-> "V"],
     [name |-> "Compass", rName |-> "C"]>>

\* name and rName of the entries of __jacdacSensorMap, in the order of the
\* source
jacdacSensorMap ==
  <<[name |-> "JacdacWaterAcidity", rName |-> "JDA"],
     [name |-> "JacdacAirPressure", rName |-> "JDAP"],
     [name |-> "JacdacButton", rName |-> "JDB"],
     [name |-> "JacdacCompass", rName |-> "JDC"],
     [name |-> "JacdacDcCurrent", rName |-> "JDCC"],
     [name |-> "JacdacDcVoltage", rName |-> "JDCV"],
     [name |-> "JacdacDistance", rName |-> "JDD"],
     [name |-> "JacdacECO2", rName |-> "JDEC02"],
     [name |-> "JacdacElectricalConductivity", rName |-> "JDEC"],
     [name |-> "JacdacFlex", rName |-> "JDF"],
     [name |-> "JacdacHeartRate", rName |-> "JDHR"],
     [name |-> "JacdacHumidity", rName |-> "JDH"],
     [name |-> "JacdacIlluminance", rName |-> "JDI"],
     [name |-> "JacdacLightLevel", rName |-> "JDLL"],
     [name |-> "JacdacMagneticField", rName |-> "JDMF"],
     [name |-> "JacdacPotentiometer", rName |-> "JDP"],
     [name |-> "JacdacPulseOximeter", rName |-> "JDPO"],
     [name |-> "JacdacRainGauge", rName |-> "JDRG"],
     [name |-> "JacdacRotaryEncoder", rName |-> "JDRE"],
     [name |-> "JacdacRotationsPerMinute", rName |-> "JDRPM"],
     [name |-> "JacdacServo", rName |-> "JDSR"],
     [name |-> "JacdacSoilMoisture", rName |-> "JDSM"],
     [name |-> "JacdacSoundLevel", rName |-> "JDSL"],
     [name |-> "JacdacTemperature", rName |-> "JDT"],
     [name |-> "JacdactVOC", rName |-> "JDV0C"],
     [name |-> "JacdacUvIndex", rName |-> "JDUV"],
     [name |-> "JacdacWaterLevel", rName |-> "JDWL"],
     [name |-> "JacdacWeightScale", rName |-> "JDWS"],
     [name |-> "JacdacWindDirection", rName |-> "JDWD"],
     [name |-> "JacdacWindSpeed", rName |-> "JDWS"]>>

\* new Sensor(opts): this.name = opts.name, this.radioName = opts.rName
NewSensor(opts) == [name |-> opts.name, radioName |-> opts.rName]

\* getMicrobitSensor(sensor), sensor the k-th member of MicrobitSensors
GetMicrobitSensor(k) ==
  /\ Len(created) < MaxCreated
  /\ created' = Append(created, NewSensor(MicrobitSensorOpts[k]))
  /\ UNCHANGED <<recordingConfig, sensorVars, datalog, callbackLog, led,
                 schedVars, logCalls, stoppedWhile, bufVars, eventVars>>

\* getJacdacSensor(srv, roleName), srv the key of the k-th entry of the map
GetJacdacSensor(k) ==
  /\ Len(created) < MaxCreated
  /\ created' = Append(created, NewSensor(jacdacSensorMap[k]))
  /\ UNCHANGED <<recordingConfig, sensorVars, datalog, callbackLog, led,
                 schedVars, logCalls, stoppedWhile, bufVars, eventVars>>

NextMap ==
  \/ \E k \in 1..Len(MicrobitSensorOpts) : GetMicrobitSensor(k)
  \/ \E k \in 1..Len(jacdacSensorMap) : GetJacdacSensor(k)

\* No Sensor created yet; the RecordingConfig objects play no part.
InitMap ==
  /\ recordingConfig =
       [c \in CfgIds |-> [measurements |-> MaxMeasurements,
                          period |-> PauseChunk,
                          inequality |-> "undefined",
                          comparator |-> Undefined]]
  /\ NewSensors
  /\ NewBuffers(Accelerometer)
  /\ NoEventFiber
  /\ NoMapSensors

SpecMap == InitMap /\ [][NextMap]_vars

----------------------------------------------------------------------------
(* Vocabulary of the properties *)

\* The sensors given to the scheduler
Given == {sensors[k] : k \in 1..Len(sensors)}

Scheduled == {schedule[k].sensor : k \in 1..Len(schedule)}

\* The log() calls made on sensor s, in order
CallsOn(s) == SelectSeq(logCalls, LAMBDA e : e.sensor = s)

\* What the log() calls returned, in order
Returned == [k \in 1..Len(logCalls) |-> logCalls[k].ret]

Remaining(s) == recordingConfig[config[s]].measurements

\* The fiber of the first start() call
Loop == fiber[1]

\* Every given sensor is periodic with a budget of at least one
PeriodicRun ==
  \A s \in Given : ~isInEventMode[s] /\ totalMeasurements[s] >= 1

----------------------------------------------------------------------------
(* C1..C8: the scheduler *)

\* C1: with only periodic sensors (budgets m >= 1) and no stop(), the k-th
\* log call on a sensor is made at logical time (k-1) * period, there are
\* never more than m of them, and exactly m once the loop has ended.
C1_LogsAtMultiplesOfPeriod ==
  (PeriodicRun /\ continueLogging) =>
    \A s \in Given :
      LET calls == CallsOn(s) IN
      /\ Len(calls) <= totalMeasurements[s]
      /\ \A k \in 1..Len(calls) : calls[k].time = Some((k - 1) * Period(s))
      /\ Loop.pc = "done" => Len(calls) = totalMeasurements[s]

\* C2: once the initial pass has run, every given sensor has received exactly
\* one log(0) call; and before the first tick the sensors no longer in the
\* schedule are exactly those without measurements left.
C2_InitialPassLogsEverySensor ==
  Loop.pc \notin {"idle", "queued"} =>
    /\ \A s \in Given :
         Len(SelectSeq(CallsOn(s), LAMBDA e : e.time = Some(0))) = 1
    /\ (Paused(Loop) /\ Loop.currentTime = 0) =>
         \A s \in Given : (s \notin Scheduled) <=> ~(Remaining(s) > 0)

\* stop() was called while the loop was in basic.pause
StoppedInPause == stoppedWhile \in {"chunk", "remainder"}

\* C3: once stop() has been called while the loop was pausing (in a chunk or
\* in the remainder pause), no step makes a log() call or changes the
\* schedule, so loggingComplete() stays as it was.
C3_NoLogAfterStop ==
  [][StoppedInPause => (logCalls' = logCalls /\ schedule' = schedule)]_vars

\* C3 witness: the loop ended on a stop() made during a pause after a tick had
\* logged, with an unfinished sensor left in the schedule.
C3_Witness ==
  /\ StoppedInPause
  /\ Loop.pc \in Ended_pcs
  /\ \E k \in 1..Len(logCalls) : logCalls[k].time # Some(0)
  /\ \E s \in Scheduled : Remaining(s) > 0
  /\ ~LoggingComplete

\* C4: a loop given a callback and ended by a stop() called during one of its
\* pauses has passed every log's return value and then, once, the empty
\* string to the callback.
C4_SentinelOnCancel ==
  (Loop.pc \in Ended_pcs /\ Loop.callbackAfterLog /\ StoppedInPause)
    => callbackLog = Returned \o <<"">>

\* C5: on natural completion with a callback, the callback has received each
\* log call's return value, in order, and then the empty string.
C5_CallbackStream ==
  (Loop.pc = "done" /\ LoggingComplete /\ Loop.callbackAfterLog)
    => callbackLog = Returned \o <<"">>

\* C5 witness: natural completion with a callback after log calls that
\* returned records and a log call of an event that did not fire.
C5_Witness ==
  /\ Loop.pc = "done" /\ LoggingComplete /\ Loop.callbackAfterLog
  /\ Len(logCalls) >= 3
  /\ \E k \in 1..Len(logCalls) : logCalls[k].ret = ""
  /\ \E k \in 1..Len(logCalls) : logCalls[k].ret # ""

\* C6: whenever loggingComplete() is true every given sensor is out of
\* measurements; an entry leaves the schedule only when its sensor is out of
\* measurements, and no entry ever enters it.
C6_CompleteMeansExhausted ==
  /\ [](LoggingComplete => \A s \in Given : ~(Remaining(s) > 0))
  /\ [][/\ Len(schedule') <= Len(schedule)
        /\ {schedule'[k].sensor : k \in 1..Len(schedule')} \subseteq Scheduled
        /\ \A s \in Scheduled :
             s \notin {schedule'[k].sensor : k \in 1..Len(schedule')}
               => ~(recordingConfig'[config[s]].measurements > 0)]_vars

\* C6 witness: logging is complete after both sensors were logged, one of
\* them in a tick.
C6_Witness ==
  /\ LoggingComplete
  /\ Cardinality(Given) = 2
  /\ \A s \in Given : Len(CallsOn(s)) >= 1
  /\ \E k \in 1..Len(logCalls) : logCalls[k].time # Some(0)

\* C7: the scheduler never calls log() on a sensor without measurements
\* left, and measurements never goes below zero.
C7_NeverLogsExhaustedSensor ==
  /\ \A k \in 1..Len(logCalls) : Val(logCalls[k].before) > 0
  /\ \A s \in Given : Remaining(s) >= 0

\* C8: once the first loop has ended, no log() call is made and no fiber of
\* the scheduler is pausing again.
C8_NoRestart ==
  [][Loop.pc \in Ended_pcs
       => (logCalls' = logCalls /\ \A f \in FiberIds : ~Paused(fiber'[f]))]_vars

----------------------------------------------------------------------------
(* C9..C10: Sensor.log and the measurement budget *)

\* C9: in every step, the measurements of a RecordingConfig go down by the
\* number of records the sink received from a log() call on a sensor holding
\* that config: by one when the call produced a record, by zero when it did
\* not (an event that did not fire); a step that is not such a call (setConfig,
\* a call on a sensor holding another config) leaves them unchanged.
C9_DecrementsOncePerRecord ==
  [][LET produced == Len(datalog') - Len(datalog)
         called == logCalls' # logCalls
     IN \A c \in CfgIds :
          recordingConfig'[c].measurements =
            recordingConfig[c].measurements -
              (IF called /\ Last(logCalls').cfg = c THEN produced ELSE 0)]_vars

\* An event-mode sensor was logged once without its event firing and once with
\* a record produced, and its budget is one below what setConfig was given.
C9_Witness ==
  \E s \in SensorIds :
    /\ config[s] # NoConfig
    /\ isInEventMode[s]
    /\ \E j, k \in 1..Len(logCalls) :
         /\ logCalls[j].sensor = s /\ logCalls[k].sensor = s
         /\ IsDefined(logCalls[j].reading)
         /\ ~logCalls[j].threw /\ logCalls[j].ret = ""
         /\ logCalls[k].rows = 1 /\ logCalls[k].ret # ""
    /\ Remaining(s) = totalMeasurements[s] - 1
    /\ Len(datalog) = 1

\* What the claim calls "the predicate for the configured symbol holds"
PredicateHolds(symbol, reading, comparator) ==
  \/ symbol = "="  /\ reading = comparator
  \/ symbol = ">"  /\ reading > comparator
  \/ symbol = "<"  /\ reading < comparator
  \/ symbol = ">=" /\ (reading > comparator \/ reading = comparator)
  \/ symbol = "<=" /\ (reading < comparator \/ reading = comparator)

\* C10: a log() call on an event-mode sensor whose symbol is one of
\* =, >, <, >=, <= and whose sample is a number completes; it hands one record
\* to the sink and returns a non-empty string if the predicate holds on
\* (sample, comparator), and hands nothing to the sink and returns "" if it
\* does not. The sink holds exactly the records of the calls made.
C10_EventGate ==
  /\ Len(datalog) = SumSeq([k \in 1..Len(logCalls) |-> logCalls[k].rows])
  /\ \A k \in 1..Len(logCalls) :
       LET e == logCalls[k]
           cf == recordingConfig[e.cfg]
       IN (e.event /\ IsDefined(e.reading)
             /\ cf.inequality \in {"=", ">", "<", ">=", "<="})
          => /\ ~e.threw
             /\ IF PredicateHolds(cf.inequality, Val(e.reading),
                                  Val(cf.comparator))
                THEN e.ret # "" /\ e.rows = 1
                ELSE e.ret = "" /\ e.rows = 0

\* The example: '>' 10 with budget 1, samples 5 then 15: no record and budget
\* 1 after the first call, one record and budget 0 after the second.
C10_Witness ==
  \E s \in SensorIds :
    /\ config[s] # NoConfig
    /\ recordingConfig[config[s]].inequality = ">"
    /\ recordingConfig[config[s]].comparator = Some(10)
    /\ totalMeasurements[s] = 1
    /\ Len(logCalls) = 2
    /\ \A k \in 1..2 : logCalls[k].sensor = s /\ logCalls[k].event
    /\ logCalls[1].reading = Some(5) /\ logCalls[1].ret = ""
    /\ logCalls[1].before = Some(1) /\ logCalls[2].before = Some(1)
    /\ logCalls[2].reading = Some(15) /\ logCalls[2].ret # ""
    /\ Len(datalog) = 1 /\ datalog[1].Event = "> 10"
    /\ Remaining(s) = 0

----------------------------------------------------------------------------
(* C11: the record of a periodic log *)

\* The rows the sink had received when the k-th log() call returned
RowsUpTo(k) == SumSeq([j \in 1..k |-> logCalls[j].rows])

\* The decimal text of a reading cut to its first READING_PRECISION characters
Truncated(reading) ==
  LET text == ToString(reading)
  IN IF Len(text) > READING_PRECISION THEN SubSeq(text, 1, READING_PRECISION)
     ELSE text

\* C11: every log() call on a configured sensor outside event mode whose
\* sample is a number hands exactly one record to the sink, with the display
\* name, the time, the truncated reading and the event field "N/A", and
\* returns radioName,time,truncated reading,N/A with the same time and
\* reading; the time is the one passed by the caller when one was passed.
C11_PeriodicRecord ==
  \A k \in 1..Len(logCalls) :
    LET e == logCalls[k] IN
    (~e.event /\ e.cfg # NoConfig /\ IsDefined(e.reading))
    => /\ ~e.threw
       /\ e.rows = 1
       /\ RowsUpTo(k) <= Len(datalog)
       /\ LET row == datalog[RowsUpTo(k)] IN
          /\ row.Sensor = SensorName(e.sensor)
          /\ row.Event = "N/A"
          /\ row.Reading = Truncated(Val(e.reading))
          /\ (IsDefined(e.time) /\ Val(e.time) # 0)
               => row.Time = ToString(Val(e.time))
          /\ e.ret = (CASE e.sensor = 1 -> "AX" [] OTHER -> "L") \o ","
                       \o row.Time \o "," \o row.Reading \o ",N/A"

\* A periodic sensor logged a reading longer than READING_PRECISION at a
\* time of the caller.
C11_Witness ==
  \E k \in 1..Len(logCalls) :
    /\ ~logCalls[k].event /\ logCalls[k].cfg # NoConfig
    /\ logCalls[k].reading = Some(123456789)
    /\ logCalls[k].time = Some(PauseChunk)
    /\ logCalls[k].ret = "AX,100,12345678,N/A"
    /\ datalog[RowsUpTo(k)].Sensor = "Accel. X"

----------------------------------------------------------------------------
(* C12..C17: the buffers *)

\* The step is a call of the buffer operation op
BufferStep(op) == bufferCalls' = bufferCalls + 1 /\ bufferCall'.op = op

\* The n most recently inserted entries of a buffer, in their order
MostRecent(seq, n) == SubSeq(seq, Len(seq) - n + 1, Len(seq))

\* C12: the two buffers always have the same length.
C12_BuffersSameLength == Len(dataBuffer) = Len(normalisedDataBuffer)

\* normaliseDataBuffer() was called on a buffer that had evicted an entry and
\* still holds one.
C12_Witness ==
  /\ bufferCall.op = "normaliseDataBuffer"
  /\ Len(dataBuffer) >= 1
  /\ Len(appended) > Len(dataBuffer)
  /\ Len(normalisedDataBuffer) = Len(dataBuffer)

\* C13: the buffer never holds more entries than maxBufferSize.
C13_LengthWithinCapacity == Len(dataBuffer) <= maxBufferSize

\* C14: dataBuffer is the latest entries of the readings appended so far, in
\* their order, and a step removes entries from its front only: what it
\* leaves is the latest entries of the buffer before, followed by what the
\* step appended.
C14_StrictFifo ==
  /\ [](/\ Len(dataBuffer) <= Len(appended)
        /\ dataBuffer = MostRecent(appended, Len(dataBuffer)))
  /\ [][LET new == SubSeq(appended', Len(appended) + 1, Len(appended'))
            kept == Len(dataBuffer') - Len(new)
        IN /\ kept >= 0 /\ kept <= Len(dataBuffer)
           /\ dataBuffer' = MostRecent(dataBuffer, kept) \o new]_vars

\* A full buffer of capacity 2 took a third reading and holds the last two
\* of 5, 15, 5.
C14_Witness ==
  /\ maxBufferSize = 2
  /\ appended = <<5, 15, 5>>
  /\ dataBuffer = <<15, 5>>
  /\ bufferCall.op = "readIntoBufferOnce"

\* C15: setBufferSize(n) with n below the length leaves the n most recently
\* inserted entries of both buffers in their order; with n at or above the
\* length it leaves both buffers as they were; the capacity becomes n.
C15_SetBufferSizeKeepsMostRecent ==
  [][BufferStep("setBufferSize")
     => LET n == Val(bufferCall'.arg) IN
        /\ maxBufferSize' = n
        /\ IF n < Len(dataBuffer)
           THEN /\ dataBuffer' = MostRecent(dataBuffer, n)
                /\ normalisedDataBuffer' = MostRecent(normalisedDataBuffer, n)
           ELSE /\ dataBuffer' = dataBuffer
                /\ normalisedDataBuffer' = normalisedDataBuffer]_vars

\* After the readings 5 and 15, setBufferSize(1) left the 15.
C15_Witness ==
  /\ bufferCall.op = "setBufferSize"
  /\ bufferCall.arg = Some(1)
  /\ appended = <<5, 15>>
  /\ bufferCalls = Len(appended) + 1
  /\ dataBuffer = <<15>>
  /\ Len(normalisedDataBuffer) = 1
  /\ normalisedDataBuffer[1][1] = 15 - minimum

C17_NumberOfReadingsCounts ==
  /\ [](numberOfReadings = Len(appended) /\ numberOfReadings >= Len(dataBuffer))
  /\ [][numberOfReadings' =
          (IF BufferStep("readIntoBufferOnce") /\ IsDefined(bufferCall'.arg)
           THEN numberOfReadings + 1 ELSE numberOfReadings)]_vars

\* Two readings were counted, one of them evicted since, with an absent
\* sample and a log() in between.
C17_Witness ==
  /\ numberOfReadings = 2
  /\ Len(dataBuffer) = 1
  /\ bufferCalls >= 3
  /\ Len(logCalls) = 1
  /\ bufferCall.op = "readIntoBufferOnce"
  /\ bufferCall.arg = Undefined

----------------------------------------------------------------------------
(* C18: termination *)

\* C18: with only periodic sensors, each with a budget of at least one and a
\* positive period, and stop() never called, once start() was called the
\* schedule becomes empty, and an empty schedule stays empty.
C18_ScheduleEventuallyEmpty ==
  /\ (starts >= 1 /\ PeriodicRun) ~> LoggingComplete
  /\ [][LoggingComplete => LoggingComplete']_vars

\* Two periodic sensors with different periods ran to the end of the loop,
\* the last log made in a tick.
C18_Witness ==
  /\ PeriodicRun
  /\ Cardinality(Given) = 2
  /\ \E s, u \in Given : Period(s) # Period(u)
  /\ Loop.pc = "done"
  /\ LoggingComplete
  /\ Len(logCalls) >= 3
  /\ Last(logCalls).time # Some(0)

----------------------------------------------------------------------------
(* C19..C20: log() without a config, log() without a reading *)

\* C19: a log() call (here with a number as the sample) on a sensor that was
\* never given a config fails, and no record of it reaches the sink.
C19_UnconfiguredLogFailsCleanly ==
  \A k \in 1..Len(logCalls) :
    (logCalls[k].cfg = NoConfig /\ IsDefined(logCalls[k].reading))
      => (logCalls[k].threw /\ logCalls[k].rows = 0)

\* C20: a log() call on a configured sensor whose sample is absent completes;
\* in event mode (with a symbol of the table) it produces no record and
\* returns "", outside event mode it produces one record.
C20_AbsentSampleIsNotAnError ==
  \A k \in 1..Len(logCalls) :
    LET e == logCalls[k] IN
    (e.cfg # NoConfig /\ ~IsDefined(e.reading)
       /\ (e.event => recordingConfig[e.cfg].inequality
                         \in {"=", ">", "<", ">=", "<="}))
    => /\ ~e.threw
       /\ IF e.event THEN e.rows = 0 /\ e.ret = ""
          ELSE e.rows = 1 /\ e.ret # ""

----------------------------------------------------------------------------
(* C21..C22: calibration and normalisation *)

\* C21: no constructed Sensor has range = 0, and no entry of the normalised
\* buffer is a quotient by zero.
C21_NoZeroRange ==
  /\ range # 0
  /\ \A i \in 1..Len(normalisedDataBuffer) : normalisedDataBuffer[i][2] # 0

\* C22: when maximum # minimum, after normaliseDataBuffer() every entry n / d
\* of the normalised buffer satisfies (n / d) * (maximum - minimum) =
\* raw - minimum, that is n * (maximum - minimum) = (raw - minimum) * d.
C22_NormaliseMatchesCalibration ==
  (bufferCall.op = "normaliseDataBuffer" /\ maximum # minimum)
  => \A i \in 1..Len(normalisedDataBuffer) :
       /\ normalisedDataBuffer[i][2] # 0
       /\ normalisedDataBuffer[i][1] * (maximum - minimum) =
            (dataBuffer[i] - minimum) * normalisedDataBuffer[i][2]

----------------------------------------------------------------------------
(* C23..C30: the scheduler's clock, ticks and order *)

\* C23: the record of every log() call made by the scheduler carries the
\* logical time the scheduler passed to the call: 0 in the initial pass,
\* currentTime in a tick.
C23_RecordsCarryLogicalTime ==
  \A k \in 1..Len(logCalls) :
    (logCalls[k].by >= 1 /\ logCalls[k].rows = 1)
    => datalog[RowsUpTo(k)].Time = ToString(Val(logCalls[k].time))

\* The loop of the first start() ran to its end and stop() was not called
NaturalCompletion == Loop.pc = "done" /\ continueLogging

\* The records sensor s produced
RecordsOf(s) == SelectSeq(logCalls, LAMBDA e : e.sensor = s /\ e.rows = 1)

\* C24: on natural completion every periodic sensor given with a budget
\* m >= 1 has produced exactly m records and has no measurements left.
C24_ExactlyBudgetRecords ==
  NaturalCompletion
  => \A s \in Given :
       (~isInEventMode[s] /\ totalMeasurements[s] >= 1)
       => (Len(RecordsOf(s)) = totalMeasurements[s] /\ Remaining(s) = 0)

\* Two periodic sensors were given, the first exhausted by the initial pass
\* (so that the second was not logged in it), and the loop ran to its end.
C24_Witness ==
  /\ NaturalCompletion
  /\ Len(sensors) = 2
  /\ \A s \in Given : ~isInEventMode[s]
  /\ totalMeasurements[sensors[1]] = 1
  /\ totalMeasurements[sensors[2]] = 2
  /\ Len(RecordsOf(sensors[2])) = 2
  /\ \A k \in 1..Len(logCalls) :
       logCalls[k].sensor = sensors[2] => logCalls[k].time # Some(0)

----------------------------------------------------------------------------
(* C25..C30: the ticks of the while loop *)

\* A step of the loop that runs one tick: the pause before it has ended and
\* no stop was requested.
TickStep == Loop.pc = "remainder" /\ continueLogging /\ continueLogging'

\* The logical time of the tick that a TickStep runs
TickTime == Loop.currentTime + Loop.sleepTime

\* The log() calls made by the step
NewCalls == SubSeq(logCalls', Len(logCalls) + 1, Len(logCalls'))

\* The entries of the schedule with measurements left whose wake-up time is t
DueAt(t) ==
  {k \in 1..Len(schedule) :
     schedule[k].waitTime = t /\ Remaining(schedule[k].sensor) > 0}

\* C25: in each tick the sensors logged are exactly those of the schedule
\* entries with measurements left whose wake-up time equals the tick's
\* currentTime; none of them is passed over in that tick.
C25_TickLogsExactlyDue ==
  [][TickStep
     => {NewCalls[k].sensor : k \in 1..Len(NewCalls)} =
        {schedule[k].sensor : k \in DueAt(TickTime)}]_vars

\* A log() call made by a tick of the loop (the initial pass logs at time 0)
TickCall(e) == e.by >= 1 /\ e.time # Some(0)

\* The call wrote the last record of its sensor's budget
Exhausting(e) == e.rows = 1 /\ e.before = Some(1)

\* C26: whenever the loop yields (it is inside one of its pauses), no sensor
\* whose budget was exhausted by a log of a tick is still in the schedule;
\* and once every given sensor is exhausted, the last of them by a tick,
\* loggingComplete() is true.
C26_ExhaustedEntryDropped ==
  Paused(Loop)
  => /\ \A k \in 1..Len(logCalls) :
          (TickCall(logCalls[k]) /\ Exhausting(logCalls[k]))
          => logCalls[k].sensor \notin Scheduled
     /\ (/\ logCalls # <<>>
         /\ TickCall(logCalls[Len(logCalls)])
         /\ \A s \in Given : Remaining(s) = 0)
        => LoggingComplete

\* The log() calls that the ticks of the loop made on sensor s, in order
TickCallsOn(s) == SelectSeq(logCalls, LAMBDA e : e.sensor = s /\ TickCall(e))

\* C27: the ticks of the loop call log() on a sensor at the logical times
\* p, 2p, 3p, ... (p its period): two consecutive calls are exactly p apart,
\* whether or not a call of an event-mode sensor wrote a record and whatever
\* the operation times were.
C27_CallsOnePeriodApart ==
  \A s \in Given :
    LET calls == TickCallsOn(s) IN
    /\ calls # <<>> => Val(calls[1].time) = Period(s)
    /\ \A j \in 1..(Len(calls) - 1) :
         Val(calls[j + 1].time) - Val(calls[j].time) = Period(s)

\* An event-mode sensor was called by two ticks; the first call's predicate
\* did not fire, the second one's did.
C27_Witness ==
  \E s \in Given :
    /\ isInEventMode[s]
    /\ Len(TickCallsOn(s)) = 2
    /\ TickCallsOn(s)[1].rows = 0
    /\ TickCallsOn(s)[2].rows = 1

\* A pause of a negative duration lasts no time
AtLeastZero(ms) == IF ms < 0 THEN 0 ELSE ms

\* The duration of the pause that follows the chunk loop
RemainderPause(fb) == JsMod(fb.pauseTime, PauseChunk)

C29_SortedAtIterationStart ==
  Paused(Loop)
  => /\ \A a, b \in 1..Len(schedule) :
          a < b => schedule[a].waitTime <= schedule[b].waitTime
     /\ \A k \in 1..Len(schedule) : Loop.nextLogTime <= schedule[k].waitTime
     /\ \E k \in 1..Len(schedule) : Loop.nextLogTime = schedule[k].waitTime
     /\ Loop.sleepTime = Loop.nextLogTime - Loop.currentTime
     /\ Loop.sleepTime >= 0

\* Two sensors were given in descending order of period and a tick has moved
\* the one logged first behind the other.
C29_Witness ==
  /\ Paused(Loop)
  /\ Len(sensors) = 2
  /\ Len(schedule) = 2
  /\ Period(1) > Period(2)
  /\ schedule[1].sensor = 1
  /\ Loop.currentTime > 0

\* The index of sensor s in the schedule sched
PositionIn(sched, s) == CHOOSE k \in 1..Len(sched) : sched[k].sensor = s

----------------------------------------------------------------------------
(* C31: start() called while a loop is running *)

\* C31: no sensor receives more log() calls than the budget it was
\* configured with, and no sensor is logged twice for the same logical time,
\* also when start() was called again while a loop was running.
C31_NoSensorLoggedByTwoLoops ==
  \A s \in Given :
    LET calls == CallsOn(s) IN
    /\ Len(calls) <= totalMeasurements[s]
    /\ \A j, k \in 1..Len(calls) : j < k => calls[j].time # calls[k].time

----------------------------------------------------------------------------
(* C32..C33, C37: eventShouldTrigger and onEvent *)

\* An eventShouldTrigger call was made
EventCalled == eventCall.sensor # 0

\* The RecordingConfig the sensor of the latest call held
EventCallConfig == recordingConfig[eventCall.cfg]

\* The call had a config with an inequality and a comparator
PredicateGiven ==
  /\ eventCall.cfg # NoConfig
  /\ EventCallConfig.inequality # "undefined"
  /\ IsDefined(EventCallConfig.comparator)

\* The step is an eventShouldTrigger call that threw
FailingEventCall == eventCall' # eventCall /\ eventCall'.threw # ""

\* C32: eventShouldTrigger fails with the no-config error when the sensor
\* has no config, with the incomplete-config error when the config lacks its
\* inequality or its comparator, and with the unrecognised-symbol error when
\* the inequality is none of =, >, <, >=, <=; a call that fails changes
\* nothing of the sensors, their configs and their buffers.
C32_EventShouldTriggerFailures ==
  /\ [](EventCalled =>
         /\ eventCall.cfg = NoConfig => eventCall.threw = NoConfigError
         /\ (eventCall.cfg # NoConfig /\ ~PredicateGiven)
            => eventCall.threw = IncompleteConfigError
         /\ (PredicateGiven /\ ~LookupHas(EventCallConfig.inequality))
            => eventCall.threw = UnrecognisedSymbolError)
  /\ [][FailingEventCall
        => UNCHANGED <<recordingConfig, sensorVars, bufVars>>]_vars

\* C33: eventShouldTrigger accepts exactly the symbols of the predicate
\* table, throws the unrecognised-symbol error for every other symbol, and
\* for a symbol of the table returns what the table's function returns for
\* the same reading and comparator.
C33_EventEvaluationIsTheTable ==
  (EventCalled /\ PredicateGiven)
  => LET inequality == EventCallConfig.inequality
         comparator == Val(EventCallConfig.comparator)
     IN IF LookupHas(inequality)
        THEN /\ eventCall.threw = ""
             /\ eventCall.ret =
                  sensorEventFunctionLookup(inequality, eventCall.reading,
                                            comparator)
        ELSE eventCall.threw = UnrecognisedSymbolError

\* C37: eventCb is invoked at most once; when it was invoked, the sample
\* the fiber polled last satisfied the predicate, and the callback's
\* argument is that sample formatted with the sensor's unit.
C37_CallbackGetsTriggeringSample ==
  /\ Len(eventCbLog) <= 1
  /\ eventCbLog # <<>>
     => /\ eventFiber.pc = "done"
        /\ EventShouldTrigger(eventFiber.sensor, eventFiber.reading).ret
        /\ eventCbLog[1] =
             NumberText(eventFiber.reading) \o " "
               \o UnitSymbol(eventFiber.sensor)

----------------------------------------------------------------------------
(* C34..C36: the frame of setConfig, log and the buffer operations *)

\* The records sensor s produced since its setConfig
RecordsSinceSetConfig(s) ==
  SelectSeq(logCalls,
            LAMBDA e : e.sensor = s /\ e.cfg # NoConfig /\ e.rows = 1)

\* C34: a log() call leaves totalMeasurements as setConfig set it, and for
\* a configured sensor totalMeasurements - measurements is the number of
\* records it produced since setConfig.
C34_TotalMeasurementsIsFixed ==
  /\ [](\A s \in SensorIds :
          config[s] # NoConfig
          => totalMeasurements[s] - Remaining(s) =
               Len(RecordsSinceSetConfig(s)))
  /\ [][logCalls' # logCalls => totalMeasurements' = totalMeasurements]_vars

\* The step is a read of one of the getters reading and normalisedReading
GetterStep ==
  bufferCall' # bufferCall /\ bufferCall'.op \in {"reading", "normalisedReading"}

\* The step is a call of readIntoBufferOnce()
ReadIntoBufferStep ==
  bufferCalls' # bufferCalls /\ bufferCall'.op = "readIntoBufferOnce"

\* C35: a read of reading or normalisedReading and a log() call leave
\* dataBuffer, normalisedDataBuffer and numberOfReadings as they were; a step
\* after which one of the buffers is longer is a readIntoBufferOnce() call;
\* readIntoBufferOnce() leaves the measurements of every config unchanged.
C35_OnlyReadIntoBufferGrows ==
  [][/\ (GetterStep \/ logCalls' # logCalls)
        => UNCHANGED <<dataBuffer, normalisedDataBuffer, numberOfReadings>>
     /\ (\/ Len(dataBuffer') > Len(dataBuffer)
         \/ Len(normalisedDataBuffer') > Len(normalisedDataBuffer))
        => ReadIntoBufferStep
     /\ ReadIntoBufferStep => recordingConfig' = recordingConfig]_vars

\* With readings in the buffers, log() was called and a getter was read.
C35_Witness ==
  /\ bufferCall.op = "normalisedReading"
  /\ IsDefined(bufferCall.ret)
  /\ logCalls # <<>>
  /\ Len(dataBuffer) >= 1
  /\ numberOfReadings >= 1

\* The measurements getter of sensor s after the step
RemainingAfter(s) == recordingConfig'[config'[s]].measurements

\* C36: a log() call on one sensor leaves the remaining measurements of
\* every other configured sensor, and the schedule, as they were.
C36_LogTouchesOneSensor ==
  [][Len(logCalls') = Len(logCalls) + 1
     => /\ \A t \in SensorIds :
             (t # logCalls'[Len(logCalls')].sensor /\ config[t] # NoConfig)
             => RemainingAfter(t) = Remaining(t)
        /\ schedule' = schedule]_vars

----------------------------------------------------------------------------
(* C38: radio names *)

\* C38: two Sensors created from the maps that have the same radioName (the
\* first field of the records they return) are Sensors of the same kind:
\* they have the same name.
C38_RadioNameIdentifiesKind ==
  \A i, j \in 1..Len(created) :
    created[i].radioName = created[j].radioName
    => created[i].name = created[j].name

====
